---- MODULE Spec2Model ----
(***************************************************************************)
(* Model of the HTTP JSON-RPC gateway (httprpc.cpp): the credential store, *)
(* the Basic-auth check, the request handler HTTPReq_JSONRPC with its      *)
(* error mapping, and the Start / Interrupt / Stop lifecycle.              *)
(*                                                                         *)
(* Strings that the code inspects byte by byte (credential, Authorization  *)
(* header) are sequences of byte values 0..255.  JSON values are records   *)
(* [type, s, n]: type is the json_spirit type tag, s the string payload    *)
(* and n the integer payload.                                              *)
(***************************************************************************)
EXTENDS Integers, Sequences, FiniteSets, TLC

VARIABLES
    mapArgs,               \* configuration: rpcuser, rpcpassword, RequireRPCPassword()
    strRPCUserColonPass,   \* the stored credential (static std::string)
    nPathHandlers,         \* number of "/" entries in the HTTP engine's handler table
    httpRPCTimerInterface, \* stored provider pointer, 0 when null
    timerInterfaces,       \* the method registry's list of timer providers
    nextIface,             \* next fresh provider object identity
    startResult,           \* return value of the last StartHTTPRPC call ("none" before),
                           \* "running" while a call is storing the credential
    timers,                \* the HTTPRPCTimer objects created so far, in creation order
    fRPCInWarmup,          \* warmup flag of the readiness provider
    rpcWarmupStatus,       \* live warmup status message
    pc,                    \* position of the request-handling context
    req,                   \* the in-flight HTTPRequest
    jreq,                  \* JSONRequest jreq (id, strMethod, params)
    valRequest,            \* the parsed body
    warmupSeen,            \* what RPCIsInWarmup(&warmupStatus) gave this request
    thrown,                \* the exception in flight inside the try block
    batchRet,              \* JSONRPCExecBatch: envelopes produced so far
    strReply,              \* body of the success reply being built
    calls,                 \* calls made by the handler on its collaborators, in order
    executed,              \* methods passed to tableRPC.execute for this request, in order
    reply,                 \* what WriteHeader / WriteReply have written
    retval,                \* "none", "true", "false", or "fault" (exception escaped)
    authCall,              \* last direct evaluation of RPCAuthorized
    errCall                \* last direct evaluation of JSONErrorReply

vars == <<mapArgs, strRPCUserColonPass, nPathHandlers, httpRPCTimerInterface,
          timerInterfaces, nextIface, startResult, timers, fRPCInWarmup, rpcWarmupStatus,
          pc, req, jreq, valRequest, warmupSeen, thrown, batchRet, strReply, calls, executed,
          reply, retval, authCall, errCall>>

lifecycleVars == <<nPathHandlers, httpRPCTimerInterface, timerInterfaces, nextIface,
                   startResult, timers>>
warmupVars == <<fRPCInWarmup, rpcWarmupStatus>>
requestVars == <<pc, req, jreq, valRequest, warmupSeen, thrown, batchRet, strReply, calls,
                 executed, reply, retval>>
probeVars == <<authCall, errCall>>

(***************************************************************************)
(* Bounds of the model.                                                    *)
(***************************************************************************)
MaxUserLen == 1      \* longest configured rpcuser
MaxPassLen == 2      \* longest configured rpcpassword
MaxBatch == 2        \* longest batch request
MaxStarts == 2       \* number of StartHTTPRPC calls over a run
MaxTimers == 2       \* number of timers created over a run
CodeSpan == 60       \* error codes probed around each distinguished code

(***************************************************************************)
(* Protocol constants (rpcprotocol.h).                                     *)
(***************************************************************************)
HTTP_OK == 200
HTTP_BAD_REQUEST == 400
HTTP_UNAUTHORIZED == 401
HTTP_NOT_FOUND == 404
HTTP_BAD_METHOD == 405
HTTP_INTERNAL_SERVER_ERROR == 500

RPC_INVALID_REQUEST == -32600
RPC_METHOD_NOT_FOUND == -32601
RPC_PARSE_ERROR == -32700
RPC_MISC_ERROR == -1
RPC_IN_WARMUP == -28

(***************************************************************************)
(* Byte strings.                                                           *)
(***************************************************************************)
BasicPrefix == <<66, 97, 115, 105, 99, 32>>      \* "Basic "
BearerHeader == <<66, 101, 97, 114, 101, 114, 32, 120>>   \* "Bearer x"
Colon == <<58>>                                   \* ":"
CredChars == {97, 98}                             \* 'a', 'b'

RECURSIVE StringsUpTo(_)
StringsUpTo(n) ==
    IF n = 0 THEN {<<>>}
    ELSE LET shorter == StringsUpTo(n - 1)
         IN  shorter \cup {Append(s, c) : s \in shorter, c \in CredChars}

\* std::string::substr(pos, n), for pos <= size
substr(s, pos, n) ==
    LET last == IF pos + n > Len(s) THEN Len(s) ELSE pos + n
    IN  SubSeq(s, pos + 1, last)

\* std::isspace in the classic locale
isspace(c) == c \in {9, 10, 11, 12, 13, 32}

RECURSIVE trim_left(_)
trim_left(s) ==
    IF s # <<>> /\ isspace(Head(s)) THEN trim_left(Tail(s)) ELSE s

RECURSIVE trim_right(_)
trim_right(s) ==
    IF s # <<>> /\ isspace(s[Len(s)]) THEN trim_right(SubSeq(s, 1, Len(s) - 1)) ELSE s

\* boost::trim
trim(s) == trim_left(trim_right(s))

\* decode64_table: the 6-bit value of a base64 character, -1 for any other byte
decode64(c) ==
    IF c \in 65..90 THEN c - 65
    ELSE IF c \in 97..122 THEN c - 71
    ELSE IF c \in 48..57 THEN c + 4
    ELSE IF c = 43 THEN 62
    ELSE IF c = 47 THEN 63
    ELSE -1

\* pbase64: the base64 character of a 6-bit value
encode64(v) ==
    IF v < 26 THEN 65 + v
    ELSE IF v < 52 THEN 71 + v
    ELSE IF v < 62 THEN v - 4
    ELSE IF v = 62 THEN 43
    ELSE 47

\* EncodeBase64: what a client puts after "Basic "
RECURSIVE EncodeBase64(_)
EncodeBase64(s) ==
    IF Len(s) = 0 THEN <<>>
    ELSE IF Len(s) = 1 THEN
        <<encode64(s[1] \div 4), encode64((s[1] % 4) * 16), 61, 61>>
    ELSE IF Len(s) = 2 THEN
        <<encode64(s[1] \div 4), encode64((s[1] % 4) * 16 + s[2] \div 16),
          encode64((s[2] % 16) * 4), 61>>
    ELSE
        <<encode64(s[1] \div 4), encode64((s[1] % 4) * 16 + s[2] \div 16),
          encode64((s[2] % 16) * 4 + s[3] \div 64), encode64(s[3] % 64)>>
        \o EncodeBase64(SubSeq(s, 4, Len(s)))

\* DecodeBase64: the decoding loop over the base64 characters.  It stops at the
\* first byte that is no base64 character (padding included) and gives what it
\* has decoded, the position in the group of four, the bits left over and the
\* bytes not consumed.
RECURSIVE DecodeLoop(_, _, _, _)
DecodeLoop(p, mode, left, vchRet) ==
    IF p = <<>> \/ decode64(Head(p)) = -1
    THEN [vchRet |-> vchRet, mode |-> mode, left |-> left, rest |-> p]
    ELSE LET dec == decode64(Head(p))
         IN  IF mode = 0 THEN DecodeLoop(Tail(p), 1, dec, vchRet)
             ELSE IF mode = 1 THEN
                 DecodeLoop(Tail(p), 2, dec % 16, Append(vchRet, left * 4 + dec \div 16))
             ELSE IF mode = 2 THEN
                 DecodeLoop(Tail(p), 3, dec % 4, Append(vchRet, left * 16 + dec \div 4))
             ELSE
                 DecodeLoop(Tail(p), 0, 0, Append(vchRet, left * 64 + dec))

\* the input is a complete base64 encoding: whole groups of four, the last one
\* padded with "==" after two characters or "=" after three, no bits left over
\* and nothing after the padding
DecodingFails(d) ==
    IF d.mode = 0 THEN d.rest # <<>>
    ELSE IF d.mode = 1 THEN TRUE
    ELSE IF d.mode = 2 THEN d.left # 0 \/ d.rest # <<61, 61>>
    ELSE d.left # 0 \/ d.rest # <<61>>

\* DecodeBase64(const std::string&): the decoded bytes; a decoding failure gives
\* the empty string, which equals no stored credential (line 85 has excluded the
\* empty credential), so that it is treated as non-matching input
DecodeBase64(str) ==
    LET d == DecodeLoop(str, 0, 0, <<>>)
    IN  IF DecodingFails(d) THEN <<>> ELSE d.vchRet

\* TimingResistantEqual(a, b)
TimingResistantEqual(a, b) ==
    IF Len(b) = 0 THEN Len(a) = 0
    ELSE /\ Len(a) = Len(b)
         /\ \A i \in 1..Len(a) : a[i] = b[((i - 1) % Len(b)) + 1]

(***************************************************************************)
(* Credential store and authenticator.                                     *)
(***************************************************************************)
BasicScheme == 6     \* length of the scheme token "Basic "

\* RPCAuthorized taking the encoded value one byte too late
RPCAuthorizedOffByOne(strAuth, cred) ==
    IF cred = <<>> THEN FALSE
    ELSE IF substr(strAuth, 0, BasicScheme) # BasicPrefix THEN FALSE
    ELSE TimingResistantEqual(
             DecodeBase64(trim(substr(strAuth, BasicScheme + 1, Len(strAuth)))), cred)

\* RPCAuthorized without the empty-credential guard
RPCAuthorizedNoGuard(strAuth, cred) ==
    IF substr(strAuth, 0, BasicScheme) # BasicPrefix THEN FALSE
    ELSE TimingResistantEqual(DecodeBase64(trim(substr(strAuth, BasicScheme, Len(strAuth)))),
                              cred)

RPCAuthorized(strAuth, cred) ==
    IF cred = <<>> THEN FALSE
    ELSE IF substr(strAuth, 0, BasicScheme) # BasicPrefix THEN FALSE
    ELSE TimingResistantEqual(DecodeBase64(trim(substr(strAuth, BasicScheme, Len(strAuth)))),
                              cred)

\* a validation that rejects the empty secret only
InitRPCAuthenticationEmptyOnly(args) ==
    [cred |-> args.rpcuser \o Colon \o args.rpcpassword,
     ok   |-> ~(args.rpcpassword = <<>> /\ args.require)]

\* InitRPCAuthentication: the credential it stores and its return value
InitRPCAuthentication(args) ==
    [cred |-> args.rpcuser \o Colon \o args.rpcpassword,
     ok   |-> ~((args.rpcpassword = <<>> \/ args.rpcuser = args.rpcpassword)
                /\ args.require)]

\* The header a client sends for the pair user:secret
HeaderFor(args) == BasicPrefix \o EncodeBase64(args.rpcuser \o Colon \o args.rpcpassword)

\* c with bit b flipped
FlipBit(c, b) == IF (c \div (2 ^ b)) % 2 = 1 THEN c - 2 ^ b ELSE c + 2 ^ b

\* header h with bit b of byte i of the encoded value (after "Basic ") flipped
Mutate(h, i, b) == [h EXCEPT ![BasicScheme + i] = FlipBit(h[BasicScheme + i], b)]

(***************************************************************************)
(* JSON values and JSON-RPC envelopes.                                     *)
(***************************************************************************)
Null == [type |-> "null_type", s |-> "", n |-> 0]
IntVal(n) == [type |-> "int_type", s |-> "", n |-> n]
StrVal(s) == [type |-> "str_type", s |-> s, n |-> 0]
ArrayVal == [type |-> "array_type", s |-> "", n |-> 0]      \* a params array
ObjectVal == [type |-> "obj_type", s |-> "", n |-> 0]       \* a params object

\* A request object: find_value gives Null for a member that is absent
RequestObj(id, method, params) ==
    [type |-> "obj_type", id |-> id, method |-> method, params |-> params]
BatchVal(elems) == [type |-> "array_type", elems |-> elems]

\* JSONRPCError(code, message): the error object {code, message}
JSONRPCError(code, message) == [type |-> "obj_type", s |-> message, n |-> code]

\* JSONRPCReplyObj(result, error, id)
JSONRPCReplyObj(result, error, id) ==
    [result |-> IF error.type # "null_type" THEN Null ELSE result,
     error  |-> error,
     id     |-> id]

\* JSONRPCReply(result, error, id): the serialized envelope
JSONRPCReply(result, error, id) ==
    [kind |-> "single", envs |-> <<JSONRPCReplyObj(result, error, id)>>]

NoThrow == [kind |-> "none", obj |-> Null, what |-> ""]
ThrowObject(obj) == [kind |-> "object", obj |-> obj, what |-> ""]
ThrowException(what) == [kind |-> "exception", obj |-> Null, what |-> what]

\* JSONRequest::JSONRequest(): id = Value::null
NewJSONRequest == [id |-> Null, strMethod |-> "", params |-> ArrayVal]

\* JSONRequest::parse(valRequest): the request after parsing and what it throws.
\* The id is parsed first, so later failures keep it.
JSONRequestParse(jr, val) ==
    IF val.type # "obj_type" THEN
        [jreq |-> jr,
         thrown |-> ThrowObject(JSONRPCError(RPC_INVALID_REQUEST, "Invalid Request object"))]
    ELSE LET withId == [jr EXCEPT !.id = val.id]
         IN  IF val.method.type = "null_type" THEN
                 [jreq |-> withId,
                  thrown |-> ThrowObject(JSONRPCError(RPC_INVALID_REQUEST, "Missing method"))]
             ELSE IF val.method.type # "str_type" THEN
                 [jreq |-> withId,
                  thrown |-> ThrowObject(JSONRPCError(RPC_INVALID_REQUEST,
                                                      "Method must be a string"))]
             ELSE IF val.params.type \notin {"array_type", "obj_type", "null_type"} THEN
                 [jreq |-> [withId EXCEPT !.strMethod = val.method.s],
                  thrown |-> ThrowObject(JSONRPCError(RPC_INVALID_REQUEST,
                                                      "Params must be an array or object"))]
             ELSE
                 [jreq |-> [withId EXCEPT !.strMethod = val.method.s,
                                          !.params = IF val.params.type = "null_type"
                                                     THEN ArrayVal ELSE val.params],
                  thrown |-> NoThrow]

\* tableRPC.execute(strMethod, params): the method registry.  A method returns a
\* value, throws an RPC error object, or throws a std::exception.
tableRPC(strMethod) ==
    IF strMethod = "ping" THEN [kind |-> "value", val |-> StrVal("pong"), thrown |-> NoThrow]
    ELSE IF strMethod = "getblockcount" THEN
        [kind |-> "value", val |-> IntVal(7), thrown |-> NoThrow]
    ELSE IF strMethod = "fail" THEN
        [kind |-> "error", val |-> Null,
         thrown |-> ThrowObject(JSONRPCError(RPC_MISC_ERROR, "failed"))]
    ELSE IF strMethod = "boom" THEN
        [kind |-> "exception", val |-> Null, thrown |-> ThrowException("boom")]
    ELSE
        [kind |-> "error", val |-> Null,
         thrown |-> ThrowObject(JSONRPCError(RPC_METHOD_NOT_FOUND, "Method not found"))]

\* catch (const std::exception& e): the error object built from e.what()
ExceptionError(what) == JSONRPCError(RPC_PARSE_ERROR, what)

\* JSONRPCExecOne(req): one batch element, everything thrown is caught
JSONRPCExecOne(elem) ==
    LET parsed == JSONRequestParse(NewJSONRequest, elem)
        out == tableRPC(parsed.jreq.strMethod)
        t == IF parsed.thrown.kind # "none" THEN parsed.thrown ELSE out.thrown
    IN  IF t.kind = "none" THEN JSONRPCReplyObj(out.val, Null, parsed.jreq.id)
        ELSE IF t.kind = "object" THEN JSONRPCReplyObj(Null, t.obj, parsed.jreq.id)
        ELSE JSONRPCReplyObj(Null, ExceptionError(t.what), parsed.jreq.id)

\* the method JSONRPCExecOne passes to the registry, if it gets that far
ExecOneCalls(elem) ==
    LET parsed == JSONRequestParse(NewJSONRequest, elem)
    IN  IF parsed.thrown.kind = "none" THEN <<parsed.jreq.strMethod>> ELSE <<>>

(***************************************************************************)
(* Error mapper.                                                           *)
(***************************************************************************)
\* JSONErrorReply with the status left at its initial value
ErrorStatusUnmapped(code) == HTTP_INTERNAL_SERVER_ERROR

\* JSONErrorReply, lines 69-75: the HTTP status of an error code
ErrorStatus(code) ==
    IF code = RPC_INVALID_REQUEST THEN HTTP_BAD_REQUEST
    ELSE IF code = RPC_METHOD_NOT_FOUND THEN HTTP_NOT_FOUND
    ELSE HTTP_INTERNAL_SERVER_ERROR

NoReply == [status |-> 0, contentType |-> "", text |-> "", kind |-> "none", envs |-> <<>>]

\* req->WriteReply(nStatus, strReply) with a plain-text (or empty) body
WriteTextReply(rep, nStatus, text) ==
    [rep EXCEPT !.status = nStatus, !.text = text,
                !.kind = IF text = "" THEN "empty" ELSE "text"]

\* the JSON reply written without the Content-Type header
WriteJSONReplyNoHeader(rep, nStatus, body) ==
    [rep EXCEPT !.status = nStatus, !.kind = body.kind, !.envs = body.envs]

\* req->WriteHeader("Content-Type", ...) then req->WriteReply(nStatus, strReply)
WriteJSONReply(rep, nStatus, body) ==
    [rep EXCEPT !.contentType = "application/json", !.status = nStatus,
                !.kind = body.kind, !.envs = body.envs]

\* JSONErrorReply(req, objError, id)
JSONErrorReply(rep, objError, id) ==
    WriteJSONReply(rep, ErrorStatus(objError.n), JSONRPCReply(Null, objError, id))

(***************************************************************************)
(* Inputs.                                                                 *)
(***************************************************************************)
\* every configuration of user, secret and the require-credential flag
AuthConfigs ==
    [rpcuser : StringsUpTo(MaxUserLen), rpcpassword : StringsUpTo(MaxPassLen),
     require : BOOLEAN]

\* the configurations the gateway runs are started with: user "a" and an empty
\* secret, a secret equal to the user, or a proper secret
MainConfigs ==
    [rpcuser : {<<97>>}, rpcpassword : {<<>>, <<97>>, <<98>>}, require : BOOLEAN]

Methods == {"UNKNOWN", "GET", "POST", "HEAD", "PUT"}     \* HTTPRequest::RequestMethod

NoAuth == [present |-> FALSE, value |-> <<>>]
AuthOf(h) == [present |-> TRUE, value |-> h]
GoodAuth(args) == AuthOf(HeaderFor(args))
BadAuths(args) ==
    { NoAuth,                                              \* no Authorization header
      AuthOf(BearerHeader),                                \* not "Basic "
      AuthOf(BasicPrefix \o <<33, 33>>),                   \* "Basic !!": no base64
      AuthOf(HeaderFor([args EXCEPT !.rpcpassword = @ \o <<120>>])),    \* wrong secret
      AuthOf(BasicPrefix \o EncodeBase64(args.rpcuser \o Colon)),       \* user and no secret
      AuthOf(BasicPrefix \o EncodeBase64(<<45, 114, 112, 99, 117, 115, 101, 114>>)) }
                                                           \* the pair "-rpcuser"

Garbage == [wellFormed |-> FALSE, val |-> Null]
Body(val) == [wellFormed |-> TRUE, val |-> val]

Elements ==
    { RequestObj(IntVal(1), StrVal("ping"), ArrayVal),
      RequestObj(StrVal("x"), StrVal("unknown"), Null),
      RequestObj(Null, StrVal("boom"), ObjectVal),
      IntVal(5) }

RECURSIVE ArraysUpTo(_)
ArraysUpTo(n) ==
    IF n = 0 THEN {<<>>}
    ELSE LET shorter == ArraysUpTo(n - 1)
         IN  shorter \cup {Append(a, e) : a \in shorter, e \in Elements}

Singles ==
    { RequestObj(IntVal(7), StrVal("ping"), ArrayVal),
      RequestObj(Null, StrVal("ping"), ArrayVal),
      RequestObj(StrVal("x"), StrVal("getblockcount"), Null),
      RequestObj(IntVal(2), StrVal("unknown"), ArrayVal),
      RequestObj(IntVal(3), StrVal("fail"), ArrayVal),
      RequestObj(IntVal(4), StrVal("boom"), ArrayVal),
      RequestObj(IntVal(5), Null, ArrayVal),
      RequestObj(IntVal(6), IntVal(1), ArrayVal),
      RequestObj(IntVal(8), StrVal("ping"), ObjectVal) }

Scalars == { IntVal(5), StrVal("hi"), Null }

Batches == { BatchVal(a) : a \in ArraysUpTo(MaxBatch) }

Bodies == {Garbage} \cup {Body(v) : v \in Singles \cup Scalars \cup Batches}

SampleBodies ==
    { Garbage,
      Body(RequestObj(IntVal(7), StrVal("ping"), ArrayVal)),
      Body(BatchVal(<<RequestObj(IntVal(1), StrVal("ping"), ArrayVal)>>)) }

NewRequest(m, a, b) == [method |-> m, auth |-> a, body |-> b]

\* the requests the HTTP engine hands to the handler
Requests(args) ==
    {NewRequest(m, a, Body(RequestObj(IntVal(7), StrVal("ping"), ArrayVal))) :
        m \in Methods \ {"POST"}, a \in BadAuths(args) \cup {GoodAuth(args)}}
    \cup {NewRequest("POST", a, b) : a \in BadAuths(args), b \in SampleBodies}
    \cup {NewRequest("POST", GoodAuth(args), b) : b \in Bodies}

NoRequest == NewRequest("NONE", NoAuth, Garbage)

WarmupMessages == {"RPC server started", "Loading block index...", "Verifying blocks..."}

(***************************************************************************)
(* Initial state.                                                          *)
(***************************************************************************)
NoAuthCall == [kind |-> "none", strAuth |-> <<>>, cred |-> <<>>, result |-> FALSE]
NotChecked == [checked |-> FALSE, inWarmup |-> FALSE, status |-> ""]
NoErrCall == [called |-> FALSE, code |-> 0, id |-> Null, reply |-> NoReply]

IdleRequest ==
    /\ pc = "idle"
    /\ req = NoRequest
    /\ jreq = NewJSONRequest
    /\ valRequest = Null
    /\ warmupSeen = NotChecked
    /\ thrown = NoThrow
    /\ batchRet = <<>>
    /\ strReply = [kind |-> "none", envs |-> <<>>]
    /\ calls = <<>>
    /\ executed = <<>>
    /\ reply = NoReply
    /\ retval = "none"

InitFrom(configs) ==
    /\ mapArgs \in configs
    /\ strRPCUserColonPass = <<>>
    /\ nPathHandlers = 0
    /\ httpRPCTimerInterface = 0
    /\ timerInterfaces = <<>>
    /\ nextIface = 1
    /\ startResult = "none"
    /\ timers = <<>>
    /\ fRPCInWarmup = TRUE
    /\ rpcWarmupStatus = "RPC server started"
    /\ IdleRequest
    /\ authCall = NoAuthCall
    /\ errCall = NoErrCall

Init == InitFrom(MainConfigs)

(***************************************************************************)
(* Gateway lifecycle.                                                      *)
(***************************************************************************)
RECURSIVE EraseFirst(_, _)
EraseFirst(seq, x) ==
    IF seq = <<>> THEN <<>>
    ELSE IF Head(seq) = x THEN Tail(seq)
    ELSE <<Head(seq)>> \o EraseFirst(Tail(seq), x)

\* a StartHTTPRPC call has begun the assignment at line 165 and not yet finished it
Storing == startResult = "running"

\* lines 190-193 and 165: StartHTTPRPC is entered (by the thread that runs the
\* lifecycle, one call at a time) and begins to assign strRPCUserColonPass.  The
\* assignment is not synchronised with the handler threads reading the string.
EnterStartHTTPRPC ==
    /\ ~Storing
    /\ InitRPCAuthentication(mapArgs).ok => nextIface <= MaxStarts
    /\ startResult' = "running"
    /\ UNCHANGED <<mapArgs, strRPCUserColonPass, nPathHandlers, httpRPCTimerInterface,
                   timerInterfaces, nextIface, timers, warmupVars, requestVars, probeVars>>

\* Start registering the handler and the provider before the credential is checked
StartHTTPRPCRegisterFirst ==
    LET r == InitRPCAuthentication(mapArgs)
    IN  /\ Storing
        /\ strRPCUserColonPass' = r.cred
        /\ nextIface <= MaxStarts
        /\ nPathHandlers' = nPathHandlers + 1
        /\ httpRPCTimerInterface' = nextIface
        /\ timerInterfaces' = Append(timerInterfaces, nextIface)
        /\ nextIface' = nextIface + 1
        /\ startResult' = IF r.ok THEN "true" ELSE "false"
        /\ UNCHANGED <<mapArgs, timers, warmupVars, requestVars, probeVars>>

\* lines 190-202: the assignment is complete, the credential is validated and,
\* if usable, the handler and the provider are registered
StartHTTPRPC ==
    LET r == InitRPCAuthentication(mapArgs)
    IN  /\ Storing
        /\ strRPCUserColonPass' = r.cred
        /\ IF ~r.ok
           THEN /\ startResult' = "false"
                /\ UNCHANGED <<nPathHandlers, httpRPCTimerInterface, timerInterfaces,
                               nextIface>>
           ELSE /\ nextIface <= MaxStarts
                /\ nPathHandlers' = nPathHandlers + 1
                /\ httpRPCTimerInterface' = nextIface
                /\ timerInterfaces' = Append(timerInterfaces, nextIface)
                /\ nextIface' = nextIface + 1
                /\ startResult' = "true"
        /\ UNCHANGED <<mapArgs, timers, warmupVars, requestVars, probeVars>>

\* lines 204-207: only logs
InterruptHTTPRPC == UNCHANGED vars

\* lines 209-218
StopHTTPRPC ==
    /\ ~Storing
    /\ nPathHandlers' = IF nPathHandlers > 0 THEN nPathHandlers - 1 ELSE 0
    /\ IF httpRPCTimerInterface # 0
       THEN /\ timerInterfaces' = EraseFirst(timerInterfaces, httpRPCTimerInterface)
            /\ httpRPCTimerInterface' = 0
       ELSE UNCHANGED <<timerInterfaces, httpRPCTimerInterface>>
    /\ UNCHANGED <<mapArgs, strRPCUserColonPass, nextIface, startResult, timers, warmupVars,
                   requestVars, probeVars>>

(***************************************************************************)
(* Deferred timers.  A timer object is a record: iface is the provider     *)
(* that made it, name the key under which its owner (the method registry's *)
(* deadlineTimers map) holds it, alive whether the object exists, pending  *)
(* whether its event is scheduled in the event loop, fired how often its   *)
(* callback has run.  The delay itself is not modelled: a pending event    *)
(* may run at any later step.                                              *)
(***************************************************************************)
TimerNames == {"lockwallet", "other"}

\* line 22: HTTPEvent ev(eventBase, false, ...)
deleteWhenTriggered == FALSE

\* lines 19-26 and 52-55: the constructor builds the event and schedules it once
NewTimer(iface, name) ==
    [iface |-> iface, name |-> name, alive |-> TRUE, pending |-> TRUE, fired |-> 0]

\* a destructor that leaves the event scheduled
DestroyTimerLeavesEvent(t) == [t EXCEPT !.alive = FALSE]

\* line 28: the event is a member of the timer, destroying the timer frees it
DestroyTimer(t) == [t EXCEPT !.alive = FALSE, !.pending = FALSE]

\* HTTPEvent's callback: runs the handler of a one-shot event, then deletes the
\* object if deleteWhenTriggered
HandleEvent(t) ==
    [t EXCEPT !.pending = FALSE, !.fired = @ + 1,
              !.alive = IF deleteWhenTriggered THEN FALSE ELSE @]

\* deadlineTimers.erase(name): the owner drops its handle of that name
EraseNamed(ts, name) ==
    [i \in 1..Len(ts) |->
        IF ts[i].alive /\ ts[i].name = name THEN DestroyTimer(ts[i]) ELSE ts[i]]

\* RPCRunLater(name, func, nSeconds): throws when no provider is registered,
\* else replaces the caller's timer of that name by one made by the first provider
RPCRunLater ==
    \E name \in TimerNames :
        /\ Len(timers) < MaxTimers
        /\ IF timerInterfaces = <<>>
           THEN UNCHANGED timers
           ELSE timers' = Append(EraseNamed(timers, name),
                                 NewTimer(timerInterfaces[1], name))
        /\ UNCHANGED <<mapArgs, strRPCUserColonPass, nPathHandlers, httpRPCTimerInterface,
                       timerInterfaces, nextIface, startResult, warmupVars, requestVars,
                       probeVars>>

\* the event loop runs a scheduled event
FireTimer ==
    \E i \in 1..Len(timers) :
        /\ timers[i].pending
        /\ timers' = [timers EXCEPT ![i] = HandleEvent(timers[i])]
        /\ UNCHANGED <<mapArgs, strRPCUserColonPass, nPathHandlers, httpRPCTimerInterface,
                       timerInterfaces, nextIface, startResult, warmupVars, requestVars,
                       probeVars>>

\* the owner cancels a timer it holds
CancelTimer ==
    \E name \in TimerNames :
        /\ \E i \in 1..Len(timers) : timers[i].alive /\ timers[i].name = name
        /\ timers' = EraseNamed(timers, name)
        /\ UNCHANGED <<mapArgs, strRPCUserColonPass, nPathHandlers, httpRPCTimerInterface,
                       timerInterfaces, nextIface, startResult, warmupVars, requestVars,
                       probeVars>>

NextLife ==
    \/ EnterStartHTTPRPC
    \/ StartHTTPRPC
    \/ InterruptHTTPRPC
    \/ StopHTTPRPC
    \/ RPCRunLater
    \/ FireTimer
    \/ CancelTimer

SpecLife == Init /\ [][NextLife]_vars

(***************************************************************************)
(* Readiness provider.                                                     *)
(***************************************************************************)
SetRPCWarmupStatus ==
    /\ fRPCInWarmup
    /\ \E m \in WarmupMessages : rpcWarmupStatus' = m
    /\ UNCHANGED <<mapArgs, strRPCUserColonPass, lifecycleVars, fRPCInWarmup,
                   requestVars, probeVars>>

SetRPCWarmupFinished ==
    /\ fRPCInWarmup
    /\ fRPCInWarmup' = FALSE
    /\ UNCHANGED <<mapArgs, strRPCUserColonPass, lifecycleVars, rpcWarmupStatus,
                   requestVars, probeVars>>

(***************************************************************************)
(* The request handler HTTPReq_JSONRPC, one action per step.               *)
(***************************************************************************)
envVars == <<mapArgs, strRPCUserColonPass, lifecycleVars, warmupVars, probeVars>>

\* the method gate letting GET through as well
MethodAllowedGetToo(m) == m \in {"POST", "GET"}

\* line 98: JSONRPC handles only POST
MethodAllowed(m) == m = "POST"

\* the 401 reply carrying an explanation
UnauthorizedReplyWithText(rep) == WriteTextReply(rep, HTTP_UNAUTHORIZED, "Unauthorized")

\* lines 105 and 117: req->WriteReply(HTTP_UNAUTHORIZED)
UnauthorizedReply(rep) == WriteTextReply(rep, HTTP_UNAUTHORIZED, "")

\* the warmup error carrying a fixed text instead of the live status
WarmupErrorFixedText(status) == JSONRPCError(RPC_IN_WARMUP, "RPC server started")

\* line 132: JSONRPCError(RPC_IN_WARMUP, warmupStatus)
WarmupError(status) == JSONRPCError(RPC_IN_WARMUP, status)

\* only error objects are caught
CaughtObjectsOnly(t) == t.kind = "object"

\* lines 153-158: the two catch clauses of the handler
Caught(t) == t.kind \in {"object", "exception"}

\* shape detection that knows no batch form
RequestShapeNoBatch(val) ==
    IF val.type = "obj_type" THEN "single" ELSE "other"

\* shape detection taking everything that is no array for a single request
RequestShapeNoOther(val) ==
    IF val.type = "array_type" THEN "batch" ELSE "single"

\* lines 137, 146, 148: singleton request, array of requests, or neither
RequestShape(val) ==
    IF val.type = "obj_type" THEN "single"
    ELSE IF val.type = "array_type" THEN "batch"
    ELSE "other"

\* the HTTP engine routes a request for "/" to the registered handler
HTTPDispatch ==
    /\ pc = "idle"
    /\ nPathHandlers > 0
    /\ \E r \in Requests(mapArgs) : req' = r
    /\ pc' = "method"
    /\ UNCHANGED <<jreq, valRequest, warmupSeen, thrown, batchRet, strReply, calls, executed,
                   reply, retval, envVars>>

\* the method check replying 405 without returning
CheckMethodNoReturn ==
    /\ pc = "method"
    /\ IF ~MethodAllowed(req.method)
       THEN /\ calls' = calls \o <<"GetRequestMethod", "WriteReply">>
            /\ reply' = WriteTextReply(reply, HTTP_BAD_METHOD,
                                       "JSONRPC server handles only POST requests")
       ELSE /\ calls' = Append(calls, "GetRequestMethod")
            /\ UNCHANGED reply
    /\ pc' = "header"
    /\ UNCHANGED <<req, warmupSeen, jreq, valRequest, thrown, batchRet, strReply, executed,
                   retval, envVars>>

\* lines 97-101
CheckMethod ==
    /\ pc = "method"
    /\ IF ~MethodAllowed(req.method)
       THEN /\ calls' = calls \o <<"GetRequestMethod", "WriteReply">>
            /\ reply' = WriteTextReply(reply, HTTP_BAD_METHOD,
                                       "JSONRPC server handles only POST requests")
            /\ retval' = "false"
            /\ pc' = "done"
       ELSE /\ calls' = Append(calls, "GetRequestMethod")
            /\ pc' = "header"
            /\ UNCHANGED <<reply, retval>>
    /\ UNCHANGED <<req, warmupSeen, jreq, valRequest, thrown, batchRet, strReply, executed, envVars>>

\* lines 102-107
CheckHeader ==
    /\ pc = "header"
    /\ IF ~req.auth.present
       THEN /\ calls' = calls \o <<"GetHeader", "WriteReply">>
            /\ reply' = UnauthorizedReply(reply)
            /\ retval' = "false"
            /\ pc' = "done"
       ELSE /\ calls' = Append(calls, "GetHeader")
            /\ pc' = "auth"
            /\ UNCHANGED <<reply, retval>>
    /\ UNCHANGED <<req, warmupSeen, jreq, valRequest, thrown, batchRet, strReply, executed, envVars>>

\* lines 85-92 against line 165: what RPCAuthorized can return to a handler
\* thread.  While a StartHTTPRPC call is assigning strRPCUserColonPass the reads
\* of lines 85 and 92 race with the write (a data race).  What line 92 then
\* compares with is indeterminate: the credential, or whatever bytes the released
\* buffer holds under whatever length is read (parts of the old and of the new
\* credential, strings the call builds).  A header without the "Basic " scheme is
\* rejected at line 87 before the comparison; for any other header the comparison
\* can come out either way.
AuthOutcomes(strAuth, cred, racing) ==
    IF ~racing THEN {RPCAuthorized(strAuth, cred)}
    ELSE IF substr(strAuth, 0, BasicScheme) # BasicPrefix THEN {FALSE}
    ELSE BOOLEAN

\* lines 109-110
Authorize ==
    /\ pc = "auth"
    /\ \E ok \in AuthOutcomes(req.auth.value, strRPCUserColonPass, Storing) :
          IF ~ok
          THEN /\ calls' = calls \o <<"RPCAuthorized", "LogPrintf">>
               /\ pc' = "sleep"
          ELSE /\ calls' = Append(calls, "RPCAuthorized")
               /\ pc' = "parse"
    /\ UNCHANGED <<req, warmupSeen, jreq, valRequest, thrown, batchRet, strReply, executed, reply,
                   retval, envVars>>

\* the 401 reply after a failed check, written without the delay
DeterBruteForceNoSleep ==
    /\ pc = "sleep"
    /\ calls' = Append(calls, "WriteReply")
    /\ reply' = UnauthorizedReply(reply)
    /\ retval' = "false"
    /\ pc' = "done"
    /\ UNCHANGED <<req, warmupSeen, jreq, valRequest, thrown, batchRet, strReply, executed,
                   envVars>>

\* lines 112-118: MilliSleep(250), then the 401 reply
DeterBruteForce ==
    /\ pc = "sleep"
    /\ calls' = calls \o <<"MilliSleep", "WriteReply">>
    /\ reply' = UnauthorizedReply(reply)
    /\ retval' = "false"
    /\ pc' = "done"
    /\ UNCHANGED <<req, warmupSeen, jreq, valRequest, thrown, batchRet, strReply, executed, envVars>>

\* the warmup check made before the body is parsed
ParseRequestWarmupFirst ==
    /\ pc = "parse"
    /\ jreq' = NewJSONRequest
    /\ IF fRPCInWarmup
       THEN /\ calls' = calls \o <<"ReadBody", "RPCIsInWarmup">>
            /\ warmupSeen' = [checked |-> TRUE, inWarmup |-> TRUE,
                              status |-> rpcWarmupStatus]
            /\ thrown' = ThrowObject(WarmupError(rpcWarmupStatus))
            /\ pc' = "catch"
            /\ UNCHANGED valRequest
       ELSE /\ calls' = calls \o <<"ReadBody", "read_string">>
            /\ UNCHANGED warmupSeen
            /\ IF ~req.body.wellFormed
               THEN /\ thrown' = ThrowObject(JSONRPCError(RPC_PARSE_ERROR, "Parse error"))
                    /\ pc' = "catch"
                    /\ UNCHANGED valRequest
               ELSE /\ valRequest' = req.body.val
                    /\ pc' = "warmup"
                    /\ UNCHANGED thrown
    /\ UNCHANGED <<req, batchRet, strReply, executed, reply, retval, envVars>>

\* lines 121-127
ParseRequest ==
    /\ pc = "parse"
    /\ calls' = calls \o <<"ReadBody", "read_string">>
    /\ jreq' = NewJSONRequest
    /\ IF ~req.body.wellFormed
       THEN /\ thrown' = ThrowObject(JSONRPCError(RPC_PARSE_ERROR, "Parse error"))
            /\ pc' = "catch"
            /\ UNCHANGED valRequest
       ELSE /\ valRequest' = req.body.val
            /\ pc' = "warmup"
            /\ UNCHANGED thrown
    /\ UNCHANGED <<req, warmupSeen, batchRet, strReply, executed, reply, retval, envVars>>

\* lines 129-132
WarmupGate ==
    /\ pc = "warmup"
    /\ calls' = Append(calls, "RPCIsInWarmup")
    /\ warmupSeen' = [checked |-> TRUE, inWarmup |-> fRPCInWarmup,
                      status |-> rpcWarmupStatus]
    /\ IF fRPCInWarmup
       THEN /\ thrown' = ThrowObject(WarmupError(rpcWarmupStatus))
            /\ pc' = "catch"
       ELSE /\ pc' = "dispatch"
            /\ UNCHANGED thrown
    /\ UNCHANGED <<req, jreq, valRequest, batchRet, strReply, executed, reply, retval,
                   envVars>>

\* lines 134-149
Dispatch ==
    /\ pc = "dispatch"
    /\ IF RequestShape(valRequest) = "single" THEN
           LET parsed == JSONRequestParse(jreq, valRequest)
               out == tableRPC(parsed.jreq.strMethod)
           IN  /\ jreq' = parsed.jreq
               /\ IF parsed.thrown.kind # "none"
                  THEN /\ thrown' = parsed.thrown
                       /\ pc' = "catch"
                       /\ UNCHANGED <<strReply, calls, executed>>
                  ELSE /\ calls' = Append(calls, "execute")
                       /\ executed' = Append(executed, parsed.jreq.strMethod)
                       /\ IF out.thrown.kind # "none"
                          THEN /\ thrown' = out.thrown
                               /\ pc' = "catch"
                               /\ UNCHANGED strReply
                          ELSE /\ strReply' = JSONRPCReply(out.val, Null, parsed.jreq.id)
                               /\ pc' = "reply"
                               /\ UNCHANGED thrown
       ELSE IF RequestShape(valRequest) = "batch" THEN
           /\ pc' = "batch"
           /\ UNCHANGED <<jreq, thrown, strReply, calls, executed>>
       ELSE
           /\ thrown' = ThrowObject(JSONRPCError(RPC_PARSE_ERROR,
                                                 "Top-level object parse error"))
           /\ pc' = "catch"
           /\ UNCHANGED <<jreq, strReply, calls, executed>>
    /\ UNCHANGED <<req, warmupSeen, valRequest, batchRet, reply, retval, envVars>>

\* line 147, JSONRPCExecBatch: one turn of the loop over the array, then the
\* serialized array
ExecBatchStep ==
    /\ pc = "batch"
    /\ IF Len(batchRet) < Len(valRequest.elems)
       THEN LET elem == valRequest.elems[Len(batchRet) + 1]
            IN  /\ batchRet' = Append(batchRet, JSONRPCExecOne(elem))
                /\ executed' = executed \o ExecOneCalls(elem)
                /\ calls' = calls \o [i \in 1..Len(ExecOneCalls(elem)) |-> "execute"]
                /\ UNCHANGED <<strReply, pc>>
       ELSE /\ strReply' = [kind |-> "batch", envs |-> batchRet]
            /\ pc' = "reply"
            /\ UNCHANGED <<batchRet, executed, calls>>
    /\ UNCHANGED <<req, warmupSeen, jreq, valRequest, thrown, reply, retval, envVars>>

\* lines 151-152 and 160
SendReply ==
    /\ pc = "reply"
    /\ calls' = calls \o <<"WriteHeader", "WriteReply">>
    /\ reply' = WriteJSONReply(reply, HTTP_OK, strReply)
    /\ retval' = "true"
    /\ pc' = "done"
    /\ UNCHANGED <<req, warmupSeen, jreq, valRequest, thrown, batchRet, strReply, executed, envVars>>

\* lines 153-158: what is thrown inside the try block is turned into an error
\* reply; anything the catch clauses do not match leaves the handler
CatchError ==
    /\ pc = "catch"
    /\ IF Caught(thrown)
       THEN /\ calls' = calls \o <<"WriteHeader", "WriteReply">>
            /\ reply' = JSONErrorReply(reply,
                                       IF thrown.kind = "object" THEN thrown.obj
                                       ELSE ExceptionError(thrown.what),
                                       jreq.id)
            /\ retval' = "false"
       ELSE /\ retval' = "fault"
            /\ UNCHANGED <<calls, reply>>
    /\ pc' = "done"
    /\ UNCHANGED <<req, warmupSeen, jreq, valRequest, thrown, batchRet, strReply, executed, envVars>>

\* the handler has returned; the HTTPRequest is destroyed
Complete ==
    /\ pc = "done"
    /\ pc' = "idle"
    /\ req' = NoRequest
    /\ jreq' = NewJSONRequest
    /\ valRequest' = Null
    /\ warmupSeen' = NotChecked
    /\ thrown' = NoThrow
    /\ batchRet' = <<>>
    /\ strReply' = [kind |-> "none", envs |-> <<>>]
    /\ calls' = <<>>
    /\ executed' = <<>>
    /\ reply' = NoReply
    /\ retval' = "none"
    /\ UNCHANGED envVars

Next ==
    \/ EnterStartHTTPRPC
    \/ StartHTTPRPC
    \/ InterruptHTTPRPC
    \/ StopHTTPRPC
    \/ SetRPCWarmupStatus
    \/ SetRPCWarmupFinished
    \/ HTTPDispatch
    \/ CheckMethod
    \/ CheckHeader
    \/ Authorize
    \/ DeterBruteForce
    \/ ParseRequest
    \/ WarmupGate
    \/ Dispatch
    \/ ExecBatchStep
    \/ SendReply
    \/ CatchError
    \/ Complete

Spec == Init /\ [][Next]_vars

(***************************************************************************)
(* The authenticator on its own: RPCAuthorized applied once to a header,   *)
(* before or after StartHTTPRPC has stored the credential, for every       *)
(* configuration.                                                          *)
(***************************************************************************)
EncodedLen(args) == Len(HeaderFor(args)) - BasicScheme

\* a client sends exactly "Basic " + base64(user:secret)
AuthorizeExact ==
    /\ authCall.kind = "none"
    /\ ~Storing
    /\ authCall' = [kind |-> "exact", strAuth |-> HeaderFor(mapArgs),
                    cred |-> strRPCUserColonPass,
                    result |-> RPCAuthorized(HeaderFor(mapArgs), strRPCUserColonPass)]
    /\ UNCHANGED <<mapArgs, strRPCUserColonPass, lifecycleVars, warmupVars, requestVars,
                   errCall>>

\* the same header with one bit of the encoded value flipped
AuthorizeMutated ==
    /\ authCall.kind = "none"
    /\ ~Storing
    /\ \E i \in 1..EncodedLen(mapArgs), b \in 0..7 :
          LET h == Mutate(HeaderFor(mapArgs), i, b)
          IN  authCall' = [kind |-> "mutated", strAuth |-> h,
                           cred |-> strRPCUserColonPass,
                           result |-> RPCAuthorized(h, strRPCUserColonPass)]
    /\ UNCHANGED <<mapArgs, strRPCUserColonPass, lifecycleVars, warmupVars, requestVars,
                   errCall>>

\* other header values: empty, the bare scheme, another scheme, padded with blanks
OtherHeaders(args) ==
    { <<>>, BasicPrefix, BearerHeader, SubSeq(BasicPrefix, 1, 5),
      BasicPrefix \o <<32>> \o EncodeBase64(args.rpcuser \o Colon \o args.rpcpassword)
                  \o <<32>> }

AuthorizeOther ==
    /\ authCall.kind = "none"
    /\ ~Storing
    /\ \E h \in OtherHeaders(mapArgs) :
          authCall' = [kind |-> "other", strAuth |-> h, cred |-> strRPCUserColonPass,
                       result |-> RPCAuthorized(h, strRPCUserColonPass)]
    /\ UNCHANGED <<mapArgs, strRPCUserColonPass, lifecycleVars, warmupVars, requestVars,
                   errCall>>

InitAuth == InitFrom(AuthConfigs)

NextAuth ==
    \/ EnterStartHTTPRPC
    \/ StartHTTPRPC
    \/ AuthorizeExact
    \/ AuthorizeMutated
    \/ AuthorizeOther

SpecAuth == InitAuth /\ [][NextAuth]_vars

(***************************************************************************)
(* The error mapper on its own: JSONErrorReply applied to error objects    *)
(* with codes around the distinguished ones.                               *)
(***************************************************************************)
ProbedCodes ==
    ((RPC_INVALID_REQUEST - CodeSpan)..(RPC_INVALID_REQUEST + CodeSpan))
    \cup ((RPC_PARSE_ERROR - CodeSpan)..(RPC_PARSE_ERROR + CodeSpan))
    \cup ((0 - CodeSpan)..CodeSpan)

ProbedIds == {Null, IntVal(7), StrVal("x")}

ErrorReply ==
    /\ ~errCall.called
    /\ \E code \in ProbedCodes, id \in ProbedIds :
          errCall' = [called |-> TRUE, code |-> code, id |-> id,
                      reply |-> JSONErrorReply(NoReply, JSONRPCError(code, "message"), id)]
    /\ UNCHANGED <<mapArgs, strRPCUserColonPass, lifecycleVars, warmupVars, requestVars,
                   authCall>>

NextErr == ErrorReply

SpecErr == Init /\ [][NextErr]_vars

(***************************************************************************)
(* Properties.                                                             *)
(***************************************************************************)
Called(name) == \E i \in 1..Len(calls) : calls[i] = name

Handling == pc # "idle"
Returned == pc = "done"

\* the authentication check of the request in flight has accepted its header
\* (RPCAuthorized was called and returned true: no failure was logged)
Authenticated ==
    req.auth.present /\ Called("RPCAuthorized") /\ ~Called("LogPrintf")

\* C1: a request whose method is not POST is answered 405 with the plain-text
\* explanation whatever its Authorization header; the handler reads the method and
\* writes the reply and does nothing else: no authentication check, no delay, no
\* body parsing, no registry call.
C1_NonPostRejectedFirst ==
    (Handling /\ req.method # "POST") =>
        /\ pc \in {"method", "done"}
        /\ \A i \in 1..Len(calls) : calls[i] \in {"GetRequestMethod", "WriteReply"}
        /\ executed = <<>>
        /\ Returned =>
              /\ reply.status = HTTP_BAD_METHOD
              /\ reply.kind = "text"
              /\ reply.text = "JSONRPC server handles only POST requests"
              /\ reply.contentType = ""
              /\ retval = "false"

C1_Witness ==
    /\ Returned
    /\ req.method = "GET"
    /\ req.auth = GoodAuth(mapArgs)
    /\ reply.status = HTTP_BAD_METHOD

\* C2: a POST that fails authentication (it carries no header, or RPCAuthorized
\* rejected its header) is answered 401 with an empty body and nothing else; the
\* warmup state is not consulted, the body is not read or parsed, the registry is
\* not invoked.
C2_AuthFailureUniform ==
    (Handling /\ req.method = "POST" /\ ~Authenticated) =>
        /\ pc \in {"method", "header", "auth", "sleep", "done"}
        /\ ~Called("ReadBody") /\ ~Called("read_string")
        /\ ~Called("RPCIsInWarmup") /\ ~warmupSeen.checked
        /\ ~Called("execute") /\ executed = <<>>
        /\ ~Called("WriteHeader")
        /\ Returned =>
              /\ reply.status = HTTP_UNAUTHORIZED
              /\ reply.kind = "empty"
              /\ reply.text = ""
              /\ reply.envs = <<>>
              /\ reply.contentType = ""
              /\ retval = "false"

C2_Witness ==
    /\ Returned
    /\ req.method = "POST"
    /\ req.auth.present
    /\ req.auth.value = HeaderFor([mapArgs EXCEPT !.rpcpassword = @ \o <<120>>])
    /\ fRPCInWarmup
    /\ reply.status = HTTP_UNAUTHORIZED

\* a user:secret pair with a user and a different, non-empty secret
ValidPair(args) ==
    /\ args.rpcuser # <<>>
    /\ args.rpcpassword # <<>>
    /\ args.rpcuser # args.rpcpassword

\* C3: with a valid pair stored as the credential, the header encoding exactly
\* that pair is accepted and every header obtained from it by flipping one bit of
\* the encoded value is rejected.
C3_ExactAcceptedMutationRejected ==
    (ValidPair(mapArgs) /\ authCall.cred = mapArgs.rpcuser \o Colon \o mapArgs.rpcpassword) =>
        /\ authCall.kind = "exact" => authCall.result
        /\ authCall.kind = "mutated" => ~authCall.result

\* the header of a padded encoding ("a:ab" gives "YTphYg==") with one bit of
\* its last padding byte flipped, rejected
C3_Witness ==
    /\ ValidPair(mapArgs)
    /\ authCall.cred = mapArgs.rpcuser \o Colon \o mapArgs.rpcpassword
    /\ authCall.kind = "mutated"
    /\ Len(authCall.cred) % 3 # 0
    /\ authCall.strAuth[Len(authCall.strAuth)] # 61
    /\ ~authCall.result

\* C4: with an empty stored credential RPCAuthorized rejects every header, and
\* after a StartHTTPRPC that returned true the stored credential is not empty.
C4_FailClosed ==
    /\ (authCall.kind # "none" /\ authCall.cred = <<>>) => ~authCall.result
    /\ startResult = "true" => strRPCUserColonPass # <<>>

C4_Witness ==
    /\ authCall.kind = "other"
    /\ authCall.cred = <<>>
    /\ authCall.strAuth = BasicPrefix
    /\ startResult = "true"
    /\ mapArgs.rpcuser = <<>>
    /\ mapArgs.rpcpassword = <<>>

\* C5: an authenticated POST with a well-formed body always reaches the warmup
\* check; when that check reports warming up, the request is answered 500 with an
\* error envelope carrying the in-warmup code and the status message the check
\* returned, and the registry is not invoked.
C5_WarmupRejected ==
    /\ (Returned /\ req.method = "POST" /\ Authenticated /\ req.body.wellFormed) =>
          warmupSeen.checked
    /\ (warmupSeen.checked /\ warmupSeen.inWarmup) =>
          /\ pc \in {"catch", "done"}
          /\ executed = <<>> /\ ~Called("execute")
          /\ Returned =>
                /\ reply.status = HTTP_INTERNAL_SERVER_ERROR
                /\ reply.contentType = "application/json"
                /\ reply.kind = "single"
                /\ reply.envs[1].result = Null
                /\ reply.envs[1].error = JSONRPCError(RPC_IN_WARMUP, warmupSeen.status)

C5_Witness ==
    /\ Returned
    /\ warmupSeen.inWarmup
    /\ warmupSeen.status = "Loading block index..."
    /\ req.body.val.type = "array_type"
    /\ reply.status = HTTP_INTERNAL_SERVER_ERROR

\* a well-formed single JSON-RPC request: an object with a string method and
\* array, object or absent params
WellFormedSingle(body) ==
    /\ body.wellFormed
    /\ body.val.type = "obj_type"
    /\ body.val.method.type = "str_type"
    /\ body.val.params.type \in {"array_type", "obj_type", "null_type"}

\* C6: the reply to a well-formed single request of an authenticated caller is
\* one envelope whose id is the id of the request, on every path.
C6_IdEchoed ==
    (Returned /\ req.method = "POST" /\ Authenticated /\ WellFormedSingle(req.body)) =>
        /\ reply.kind = "single"
        /\ reply.envs[1].id = req.body.val.id

\* the envelope the registry's outcome for one batch element calls for
ElementAnswered(elem, env) ==
    IF elem.type # "obj_type" THEN
        /\ env.error.type = "obj_type" /\ env.error.n = RPC_INVALID_REQUEST
        /\ env.result = Null /\ env.id = Null
    ELSE
        /\ env.id = elem.id
        /\ tableRPC(elem.method.s).kind = "value" =>
              env.error = Null /\ env.result = tableRPC(elem.method.s).val
        /\ tableRPC(elem.method.s).kind = "error" =>
              env.result = Null /\ env.error = tableRPC(elem.method.s).thrown.obj
        /\ tableRPC(elem.method.s).kind = "exception" =>
              /\ env.result = Null
              /\ env.error = JSONRPCError(RPC_PARSE_ERROR, tableRPC(elem.method.s).thrown.what)

\* the methods of the first n elements that reach the registry, in input order
RECURSIVE MethodsOf(_, _)
MethodsOf(elems, n) ==
    IF n = 0 THEN <<>>
    ELSE MethodsOf(elems, n - 1)
         \o (IF elems[n].type = "obj_type" THEN <<elems[n].method.s>> ELSE <<>>)

BatchInFlight ==
    /\ req.method = "POST" /\ Authenticated /\ req.body.wellFormed
    /\ req.body.val.type = "array_type"
    /\ warmupSeen.checked /\ ~warmupSeen.inWarmup

C8_BatchAlwaysOK ==
    (BatchInFlight /\ Returned) =>
        /\ reply.status = HTTP_OK
        /\ reply.contentType = "application/json"
        /\ reply.kind = "batch"
        /\ retval = "true"

C8_Witness ==
    /\ BatchInFlight /\ Returned
    /\ Len(reply.envs) = 2
    /\ \A j \in 1..2 : reply.envs[j].error # Null
    /\ reply.status = HTTP_OK

\* C9: JSONErrorReply maps the invalid-request code to 400, the method-not-found
\* code to 404 and every other code to 500, and its reply carries Content-Type
\* application/json and one envelope with a null result, the error and the id.
C9_ErrorMappingTotal ==
    errCall.called =>
        /\ errCall.code = RPC_INVALID_REQUEST => errCall.reply.status = HTTP_BAD_REQUEST
        /\ errCall.code = RPC_METHOD_NOT_FOUND => errCall.reply.status = HTTP_NOT_FOUND
        /\ errCall.code \notin {RPC_INVALID_REQUEST, RPC_METHOD_NOT_FOUND} =>
              errCall.reply.status = HTTP_INTERNAL_SERVER_ERROR
        /\ errCall.reply.contentType = "application/json"
        /\ errCall.reply.kind = "single"
        /\ Len(errCall.reply.envs) = 1
        /\ errCall.reply.envs[1].result = Null
        /\ errCall.reply.envs[1].error = JSONRPCError(errCall.code, "message")
        /\ errCall.reply.envs[1].id = errCall.id

C9_Witness ==
    /\ errCall.called
    /\ errCall.code = RPC_METHOD_NOT_FOUND
    /\ errCall.reply.status = HTTP_NOT_FOUND

\* C10: nothing the registry raises in single-call processing leaves the handler:
\* the handler returns a value after writing a reply; a thrown error object is
\* replied with its own code and message, a thrown exception with the parse-error
\* code and the exception's description.
C10_RegistryFailuresContained ==
    /\ retval # "fault"
    /\ (Returned /\ req.body.wellFormed /\ req.body.val.type = "obj_type"
                 /\ executed # <<>>) =>
          LET out == tableRPC(executed[1])
          IN  /\ retval \in {"true", "false"}
              /\ reply.status # 0
              /\ reply.kind = "single"
              /\ out.kind = "error" =>
                    /\ retval = "false"
                    /\ reply.envs[1].error = out.thrown.obj
                    /\ reply.status = ErrorStatus(out.thrown.obj.n)
              /\ out.kind = "exception" =>
                    /\ retval = "false"
                    /\ reply.envs[1].error = JSONRPCError(RPC_PARSE_ERROR, out.thrown.what)
                    /\ reply.status = HTTP_INTERNAL_SERVER_ERROR

C10_Witness ==
    /\ Returned
    /\ executed = <<"boom">>
    /\ retval = "false"
    /\ reply.envs[1].error = JSONRPCError(RPC_PARSE_ERROR, "boom")

\* number of WriteReply calls among the first n calls
RECURSIVE RepliesIn(_, _)
RepliesIn(cs, n) ==
    IF n = 0 THEN 0
    ELSE RepliesIn(cs, n - 1) + (IF cs[n] = "WriteReply" THEN 1 ELSE 0)

\* C11: a handler invocation writes exactly one reply on every path: never more
\* than one WriteReply, the WriteReply is the last call made on the request (no
\* header and no request method after it), and the handler never returns without
\* having written it.
C11_ExactlyOneReply ==
    /\ RepliesIn(calls, Len(calls)) <= 1
    /\ \A i \in 1..Len(calls) : calls[i] = "WriteReply" => i = Len(calls)
    /\ (reply.status # 0) = Called("WriteReply")
    /\ Returned =>
          /\ RepliesIn(calls, Len(calls)) = 1
          /\ calls[Len(calls)] = "WriteReply"
          /\ retval \in {"true", "false"}

C11_Witness ==
    /\ Returned
    /\ thrown.kind = "exception"
    /\ RepliesIn(calls, Len(calls)) = 1
    /\ calls[Len(calls) - 1] = "WriteHeader"

\* the one envelope of an error reply carries this code and message, mapped to 500
ParseErrorReply(message) ==
    /\ reply.status = HTTP_INTERNAL_SERVER_ERROR
    /\ reply.kind = "single"
    /\ reply.envs[1].result = Null
    /\ reply.envs[1].error = JSONRPCError(RPC_PARSE_ERROR, message)
    /\ executed = <<>>
    /\ ~Called("execute")

AuthenticatedPost == req.method = "POST" /\ Authenticated

ScalarBody == req.body.wellFormed /\ req.body.val.type \notin {"obj_type", "array_type"}

\* C12 as claimed: for an authenticated POST a body that is no JSON is answered
\* "Parse error" and a body that is JSON but neither object nor array is answered
\* "Top-level object parse error", both with the parse-error code and 500, the
\* registry not invoked.
C12_ParseErrorsAsClaimed ==
    (Returned /\ AuthenticatedPost) =>
        /\ ~req.body.wellFormed => ParseErrorReply("Parse error")
        /\ ScalarBody => ParseErrorReply("Top-level object parse error")

\* C12 amended: the body that is no JSON is answered "Parse error" always; the
\* body of wrong top-level shape is answered "Top-level object parse error" when
\* the warmup check of that request did not report warming up.
C12_ParseErrors ==
    (Returned /\ AuthenticatedPost) =>
        /\ ~req.body.wellFormed => ParseErrorReply("Parse error")
        /\ (ScalarBody /\ ~warmupSeen.inWarmup) =>
              ParseErrorReply("Top-level object parse error")

C12_Witness ==
    /\ Returned /\ AuthenticatedPost
    /\ req.body.val = StrVal("hi")
    /\ warmupSeen.checked /\ ~warmupSeen.inWarmup
    /\ reply.envs[1].error = JSONRPCError(RPC_PARSE_ERROR, "Top-level object parse error")

\* what Start registers and Stop unregisters
Registration == <<nPathHandlers, httpRPCTimerInterface, timerInterfaces, nextIface>>

Stopped == httpRPCTimerInterface = 0

\* C13: a Start that fails credential validation registers nothing: in a
\* configuration whose Start fails no handler and no provider is ever registered,
\* no provider object is constructed, and the failing call leaves the
\* registration state as it was.
C13_FailedStartRegistersNothing ==
    [][startResult' = "false" =>
          /\ Registration' = Registration
          /\ nPathHandlers' = 0 /\ httpRPCTimerInterface' = 0
          /\ timerInterfaces' = <<>> /\ nextIface' = 1]_vars

C13_Witness ==
    /\ startResult = "false"
    /\ mapArgs.require /\ mapArgs.rpcpassword = mapArgs.rpcuser
    /\ strRPCUserColonPass # <<>>
    /\ nPathHandlers = 0 /\ timerInterfaces = <<>> /\ httpRPCTimerInterface = 0

\* C14: Stop is idempotent: whenever the stored provider pointer is null (never
\* started, or after a Stop) the handler is unregistered and no provider is
\* registered, and a step taken in that state that leaves the pointer null (a
\* further Stop) changes neither.
C14_StopIdempotent ==
    [][/\ Stopped' => nPathHandlers' = 0 /\ timerInterfaces' = <<>>
       /\ (Stopped /\ Stopped') => UNCHANGED <<nPathHandlers, timerInterfaces>>]_vars

\* C15: the provider is registered in lockstep with the gateway: the registry
\* holds at most one provider, it holds one exactly when the path handler is
\* registered, it is the one the gateway holds, and after Stop none remains.
C15_ProviderLockstep ==
    /\ Len(timerInterfaces) <= 1
    /\ (timerInterfaces # <<>>) = (nPathHandlers > 0)
    /\ timerInterfaces # <<>> => timerInterfaces = <<httpRPCTimerInterface>>
    /\ Stopped => timerInterfaces = <<>>

\* C16: a timer fires at most once, and a timer whose handle was destroyed before
\* it fired never fires afterwards.
C16_FiresAtMostOnce ==
    [][\A i \in 1..Len(timers) :
          /\ timers'[i].fired <= 1
          /\ timers'[i].fired >= timers[i].fired
          /\ ~timers[i].alive => timers'[i].fired = timers[i].fired]_vars

C16_Witness ==
    \E i, j \in 1..Len(timers) :
        /\ timers[i].fired = 1 /\ ~timers[i].pending
        /\ ~timers[j].alive /\ timers[j].fired = 0

\* C17: a timer handle is destroyed when its callback fires: a timer that has
\* fired no longer exists (it deleted itself and released its registration, the
\* event loop being its only owner).
C17_DestroyedOnFire ==
    \A i \in 1..Len(timers) : timers[i].fired > 0 => ~timers[i].alive

\* C18: Stop does not cancel outstanding timers (the step that stops the gateway
\* leaves every timer as it is, scheduled ones scheduled), and while the gateway
\* is stopped no new timer is obtained.
C18_StopKeepsTimersAddsNone ==
    [][/\ (~Stopped /\ Stopped') => timers' = timers
       /\ Stopped => Len(timers') = Len(timers)]_vars

\* C19 as claimed: every authentication failure, the missing header included, is
\* logged and delayed before its 401 reply; an authenticated request is not
\* delayed.
C19_DelayOnEveryFailure ==
    /\ (Returned /\ req.method = "POST" /\ ~Authenticated) =>
          calls = <<"GetRequestMethod", "GetHeader", "RPCAuthorized", "LogPrintf",
                    "MilliSleep", "WriteReply">>
          \/ calls = <<"GetRequestMethod", "GetHeader", "LogPrintf", "MilliSleep",
                       "WriteReply">>
    /\ (Handling /\ AuthenticatedPost) => ~Called("MilliSleep")

\* C19 amended: a present header that RPCAuthorized rejects is logged, then
\* delayed, then answered 401, and the handler has called nothing that takes a
\* lock (RPCIsInWarmup) when it sleeps; a request without Authorization header is
\* answered 401 at once, without log and without delay; an authenticated request
\* is not delayed.
C19_DelayOnRejectedHeader ==
    /\ (Returned /\ req.method = "POST" /\ req.auth.present /\ ~Authenticated) =>
          calls = <<"GetRequestMethod", "GetHeader", "RPCAuthorized", "LogPrintf",
                    "MilliSleep", "WriteReply">>
    /\ pc = "sleep" =>
          calls = <<"GetRequestMethod", "GetHeader", "RPCAuthorized", "LogPrintf">>
    /\ (Returned /\ req.method = "POST" /\ ~req.auth.present) =>
          calls = <<"GetRequestMethod", "GetHeader", "WriteReply">>
    /\ (Handling /\ AuthenticatedPost) => ~Called("MilliSleep") /\ ~Called("LogPrintf")

C19_Witness ==
    /\ Returned
    /\ req.method = "POST"
    /\ req.auth = AuthOf(BearerHeader)
    /\ Called("MilliSleep")
    /\ reply.status = HTTP_UNAUTHORIZED

\* C20: the gates of an authenticated POST run in the order parse, warmup check,
\* shape detection: a malformed body is answered "Parse error" without the warmup
\* state being consulted, also while the node is warming up; a well-formed body of
\* wrong top-level shape for which the warmup check reports warming up is answered
\* with the in-warmup error.
C20_GateOrder ==
    /\ (Handling /\ AuthenticatedPost /\ ~req.body.wellFormed) =>
          /\ ~warmupSeen.checked /\ ~Called("RPCIsInWarmup")
          /\ Returned =>
                reply.envs[1].error = JSONRPCError(RPC_PARSE_ERROR, "Parse error")
    /\ (Returned /\ AuthenticatedPost /\ ScalarBody /\ warmupSeen.inWarmup) =>
          reply.envs[1].error = JSONRPCError(RPC_IN_WARMUP, warmupSeen.status)
    /\ (Handling /\ warmupSeen.checked) =>
          \E i \in 1..Len(calls) :
              /\ calls[i] = "read_string"
              /\ i < Len(calls) => calls[i + 1] = "RPCIsInWarmup"
    /\ pc \in {"dispatch", "batch", "reply"} => warmupSeen.checked

C20_Witness ==
    /\ Returned /\ AuthenticatedPost
    /\ ~req.body.wellFormed
    /\ fRPCInWarmup
    /\ reply.envs[1].error = JSONRPCError(RPC_PARSE_ERROR, "Parse error")

\* the configurations the claim names as unusable
NoUsableCredential ==
    mapArgs.require /\ (Len(mapArgs.rpcpassword) = 0 \/ mapArgs.rpcpassword = mapArgs.rpcuser)

\* C21: once Start has returned, it has failed exactly when the deployment
\* requires a credential and the secret is empty or equal to the username; in
\* every other configuration it has succeeded, the stored credential is
\* user + ":" + secret, a handler for "/" is registered and the provider the
\* gateway holds is registered with the method registry.
C21_StartFailsExactlyWhenUnusable ==
    startResult \in {"true", "false"} =>
        /\ (startResult = "false") = NoUsableCredential
        /\ strRPCUserColonPass = mapArgs.rpcuser \o <<58>> \o mapArgs.rpcpassword
        /\ startResult = "true" =>
              /\ nPathHandlers >= 1
              /\ httpRPCTimerInterface # 0
              /\ timerInterfaces # <<>>
              /\ timerInterfaces[Len(timerInterfaces)] = httpRPCTimerInterface
        /\ startResult = "false" =>
              nPathHandlers = 0 /\ httpRPCTimerInterface = 0 /\ timerInterfaces = <<>>

C21_Witness ==
    /\ startResult = "true"
    /\ ~mapArgs.require
    /\ mapArgs.rpcpassword = <<>>
    /\ strRPCUserColonPass = mapArgs.rpcuser \o <<58>>
    /\ nPathHandlers = 1
    /\ timerInterfaces = <<httpRPCTimerInterface>>

====
